---- MODULE Spec2Model ----
(***************************************************************************)
(* A model of the HAP IP transport of ivucica/hc:                          *)
(*   - hap/ip_transport.go: configuration (NewIPTransport), Start and      *)
(*     Stop, mDNS reachability (Handle, isPaired,                          *)
(*     updateMDNSReachability), the event broadcaster (addAccessory,       *)
(*     notifyListener) and the accessory identifier                        *)
(*     (transportUUIDInStorage);                                           *)
(*   - netio/handler/pair-setup.go: the pair-setup endpoint (ServeHTTP),   *)
(*     as one step per request and statement by statement;                 *)
(*   - server/server.go: NewServer, Port, ListenAndServe and Stop.         *)
(* Each subsystem has its own specification over the shared variables;     *)
(* Spec is their composition.                                              *)
(***************************************************************************)
EXTENDS Integers, FiniteSets, Sequences, TLC

\* ---------------------------------------------------------------- bounds
\* Number of TCP connections (each served by its own worker).
NumConns == 2

\* Number of distinct controllers that may pair with the accessory.
NumControllers == 2

Conns == 1..NumConns

Controllers == 1..NumControllers

\* The accessory's own entity in the database (ip_transport.go:235-237).
Accessory == 0

VARIABLES
    \* --- reachability (ip_transport.go)
    database,      \* set of entities stored in the database
    mdns,          \* t.mdns: [ptr |-> non-nil?, reachable |-> flag]
    hpc,           \* per connection: position of the worker inside Handle
    hval,          \* per connection: the value of t.isPaired() it evaluated
    lastIsPaired,  \* the most recent isPaired() call: what it returned and
                   \* whether the paired-controller set was non-empty then
    readFails,     \* whether the storage backend may fail a read in this run
    \* --- event broadcaster (ip_transport.go)
    active,        \* t.context.ActiveConnections()
    Events,        \* c.Events of the characteristic whose value changes
    subscribed,    \* connections that asked for events of that characteristic
    stalled,       \* connections whose peer has stopped reading (writes block)
    bc,            \* the notifyListener call in progress (its locals)
    exited,        \* the process was ended by log.Fatal
    \* --- pair-setup endpoint (pair-setup.go)
    session,       \* per connection: the Session's pair-setup controller
    created,       \* per connection: controllers created for its Session
    resp,          \* per connection: the last pair-setup request and what
                   \* the ResponseWriter sent for it
    \* --- accessory identifier (ip_transport.go)
    storage,       \* the value stored under the key "uuid" (NoUUID: none)
    returned,      \* what the calls of transportUUIDInStorage returned, in order
    \* --- pair-setup endpoint, statement by statement (pair-setup.go)
    mutex,         \* the holder of the shared sync.Mutex (NoConn: unlocked)
    frame,         \* per connection: the locals of its ServeHTTP call
    registry,      \* connections for which the context holds a Session
    \* --- a second goroutine changing the value (ip_transport.go)
    bcApp,         \* the notifyListener call of the application goroutine
    verified,      \* connections whose Session holds the pair-verify keys
    \* --- configuration, server port, start and stop
    boot,          \* NewIPTransport/Start: the Config and what mDNS publishes
    srv,           \* NewServer: the listener's address and hkServer.port
    life           \* Start and Stop, statement by statement

reachVars == <<database, mdns, hpc, hval, lastIsPaired, readFails>>

eventVars == <<active, Events, subscribed, stalled, bc, exited>>

setupVars == <<session, created, resp>>

uuidVars == <<storage, returned>>

handlerVars == <<mutex, frame, registry>>

newVars == <<mutex, frame, registry, bcApp, verified, boot, srv, life>>

vars == <<database, mdns, hpc, hval, lastIsPaired, readFails,
          active, Events, subscribed, stalled, bc, exited,
          session, created, resp, storage, returned,
          mutex, frame, registry, bcApp, verified, boot, srv, life>>

\* ------------------------------------------------- reachability: helpers
\* The set of PairedController records: every entity but the accessory's own.
PairedControllers == database \ {Accessory}

\* The outcomes of a storage read: success, and failure on a faulty backend.
ReadOutcomes == IF readFails THEN BOOLEAN ELSE {TRUE}

\* t.database.Entities(): the stored entities, or a read error.
Entities(ok) == [es |-> IF ok THEN database ELSE {}, err |-> ~ok]

\* isPaired: "more than one entity is stored", and false on a read error.
isPaired(r) == (~r.err) /\ Cardinality(r.es) > 1

\* The reachable flag of a freshly built MDNSService.
NewMDNSServiceReachable == TRUE

NoCall == [called |-> FALSE, ret |-> FALSE, nonEmpty |-> FALSE]

Call(r) == [called |-> TRUE, ret |-> isPaired(r), nonEmpty |-> PairedControllers # {}]

\* ------------------------------------------------- reachability: actions
\* Start: builds the mDNS service, clears its reachable flag when the
\* transport is paired, publishes it and serves.
Start ==
    /\ ~mdns.ptr
    /\ \E ok \in ReadOutcomes :
         /\ mdns' = [ptr |-> TRUE,
                     reachable |-> IF isPaired(Entities(ok)) THEN FALSE
                                   ELSE NewMDNSServiceReachable]
         /\ lastIsPaired' = Call(Entities(ok))
    /\ UNCHANGED <<database, hpc, hval, readFails>>
    /\ UNCHANGED eventVars
    /\ UNCHANGED uuidVars
    /\ UNCHANGED newVars
    /\ UNCHANGED setupVars

\* A controller is added on connection c (pair-setup M5, or /pairings add);
\* the endpoint emits DevicePaired and the worker enters Handle.
PairDevice(c, k) ==
    /\ mdns.ptr
    /\ hpc[c] = "idle"
    /\ k \notin database
    /\ database' = database \cup {k}
    /\ hpc' = [hpc EXCEPT ![c] = "Handle"]
    /\ UNCHANGED <<mdns, hval, lastIsPaired, readFails>>
    /\ UNCHANGED eventVars
    /\ UNCHANGED uuidVars
    /\ UNCHANGED newVars
    /\ UNCHANGED setupVars

\* A controller is removed on connection c (/pairings remove); the endpoint
\* emits DeviceUnpaired and the worker enters Handle.
UnpairDevice(c, k) ==
    /\ mdns.ptr
    /\ hpc[c] = "idle"
    /\ k \in PairedControllers
    /\ database' = database \ {k}
    /\ hpc' = [hpc EXCEPT ![c] = "Handle"]
    /\ UNCHANGED <<mdns, hval, lastIsPaired, readFails>>
    /\ UNCHANGED eventVars
    /\ UNCHANGED uuidVars
    /\ UNCHANGED newVars
    /\ UNCHANGED setupVars

\* Handle -> updateMDNSReachability: the argument t.isPaired() == false is
\* evaluated (no lock is held).
HandleIsPaired(c) ==
    /\ hpc[c] = "Handle"
    /\ \E ok \in ReadOutcomes :
         /\ hval' = [hval EXCEPT ![c] = isPaired(Entities(ok))]
         /\ lastIsPaired' = Call(Entities(ok))
    /\ hpc' = [hpc EXCEPT ![c] = IF mdns.ptr THEN "SetReachable" ELSE "idle"]
    /\ UNCHANGED <<database, mdns, readFails>>
    /\ UNCHANGED eventVars
    /\ UNCHANGED uuidVars
    /\ UNCHANGED newVars
    /\ UNCHANGED setupVars

\* updateMDNSReachability: mdns.SetReachable(<evaluated argument>); Update().
HandleSetReachable(c) ==
    /\ hpc[c] = "SetReachable"
    /\ mdns' = [mdns EXCEPT !.reachable = (hval[c] = FALSE)]
    /\ hpc' = [hpc EXCEPT ![c] = "idle"]
    /\ UNCHANGED <<database, hval, lastIsPaired, readFails>>
    /\ UNCHANGED eventVars
    /\ UNCHANGED uuidVars
    /\ UNCHANGED newVars
    /\ UNCHANGED setupVars

NextReach ==
    \/ Start
    \/ \E c \in Conns, k \in Controllers : PairDevice(c, k)
    \/ \E c \in Conns, k \in Controllers : UnpairDevice(c, k)
    \/ \E c \in Conns : HandleIsPaired(c)
    \/ \E c \in Conns : HandleSetReachable(c)

\* ------------------------------------------------ pair-setup: helpers
\* The most controllers one Session is let to create in the model.
MaxCreated == 2

\* http.StatusInternalServerError.
StatusInternalServerError == 500

\* The status an http.ResponseWriter sends when Write comes first.
StatusOK == 200

\* netio.HTTPContentTypePairingTLV8.
HTTPContentTypePairingTLV8 == "application/pairing+tlv8"

\* session.PairSetupHandler() of a Session that holds no controller.
NilController == [gen |-> 0, step |-> "nil"]

\* The request bodies: the three requests of the handshake, and bytes that
\* are no TLV8.
Msgs == {"M1", "M3", "M5", "Malformed"}

\* An http.ResponseWriter: the header map, and what went on the wire (the
\* status line with the headers as they were then, and the body).
NewResponseWriter ==
    [wrote |-> FALSE, status |-> 0, header |-> "none", ctype |-> "none",
     body |-> "none"]

\* response.Header().Set("Content-Type", v).
HeaderSet(w, v) == [w EXCEPT !.header = v]

\* response.WriteHeader(status): sends the status line and the headers set
\* so far; a second call sends nothing.
WriteHeader(w, status) ==
    IF w.wrote THEN w
    ELSE [w EXCEPT !.wrote = TRUE, !.status = status, !.ctype = w.header]

\* response.Write(bytes): sends the status line first when none was sent.
Write(w, bytes) == [WriteHeader(w, StatusOK) EXCEPT !.body = bytes]

NoRequest ==
    [msg |-> "none", prev |-> "nil", panic |-> FALSE, w |-> NewResponseWriter]

\* The locals of a ServeHTTP call that has not started: pc is the statement
\* the worker is at; miss, whether the context held no Session for the key;
\* createErr, the err of NewSetupServerController; set, what
\* SetPairSetupHandler was called with; passed, whether the body was handed
\* to HandleReaderForHandler; panicAt, where the call panicked.
IdleFrame ==
    [pc |-> "idle", msg |-> "none", miss |-> FALSE, panicAt |-> "none",
     prev |-> "nil", controller |-> NilController, createErr |-> FALSE,
     set |-> "none", passed |-> FALSE, body |-> "none", err |-> FALSE]

\* A handler that makes a controller for every request.
NeedsControllerAlways(controller) == TRUE

\* ServeHTTP: "if controller == nil".
NeedsController(controller) == controller = NilController

\* pair.NewSetupServerController: a controller waiting for M1, or nil with
\* an error.
NewSetupServerController(c, ok) ==
    IF ok THEN [gen |-> created[c] + 1, step |-> "M1"] ELSE NilController

\* The setup controller's state machine: one decoded request in, one TLV8
\* response out. An out-of-sequence request and a failed check abort the
\* attempt (back to waiting for M1); a storage error at M5 is returned as err.
Handle(controller, msg, good, stored) ==
    IF controller.step # msg
    THEN [controller |-> [controller EXCEPT !.step = "M1"],
          body |-> "UnknownError", err |-> FALSE, panic |-> FALSE]
    ELSE IF ~good
    THEN [controller |-> [controller EXCEPT !.step = "M1"],
          body |-> IF msg = "M1" THEN "Unavailable" ELSE "AuthenticationFailed",
          err |-> FALSE, panic |-> FALSE]
    ELSE IF msg = "M1"
    THEN [controller |-> [controller EXCEPT !.step = "M3"],
          body |-> "M2", err |-> FALSE, panic |-> FALSE]
    ELSE IF msg = "M3"
    THEN [controller |-> [controller EXCEPT !.step = "M5"],
          body |-> "M4", err |-> FALSE, panic |-> FALSE]
    ELSE IF stored
    THEN [controller |-> [controller EXCEPT !.step = "Done"],
          body |-> "M6", err |-> FALSE, panic |-> FALSE]
    ELSE [controller |-> [controller EXCEPT !.step = "M1"],
          body |-> "none", err |-> TRUE, panic |-> FALSE]

\* pair.HandleReaderForHandler(request.Body, controller): decodes the body
\* (a decode failure is returned as err, the controller is not called), then
\* calls the controller; calling a nil controller panics.
HandleReaderForHandler(controller, msg, good, stored) ==
    IF msg = "Malformed"
    THEN [controller |-> controller, body |-> "none", err |-> TRUE,
          panic |-> FALSE]
    ELSE IF controller = NilController
    THEN [controller |-> controller, body |-> "none", err |-> FALSE,
          panic |-> TRUE]
    ELSE Handle(controller, msg, good, stored)

\* A handler that sets the content type after it has written the response.
ServeHTTPResponseHeaderLast(r) ==
    LET w == IF r.err
             THEN WriteHeader(NewResponseWriter, StatusInternalServerError)
             ELSE Write(NewResponseWriter, r.body)
    IN  HeaderSet(w, HTTPContentTypePairingTLV8)

\* ServeHTTP, lines 33 and 51-57: the content type is set first, then the
\* status line alone on err, or the response body.
ServeHTTPResponse(r) ==
    LET w == HeaderSet(NewResponseWriter, HTTPContentTypePairingTLV8)
    IN  IF r.err THEN WriteHeader(w, StatusInternalServerError)
        ELSE Write(w, r.body)

\* ------------------------------------------------ pair-setup: actions
\* POST /pair-setup on connection c with body msg. good: the request passes
\* the controller's check for its step; stored: the storage takes the new
\* pairing; newOk: creating a controller succeeds. A panic of the handler is
\* recovered by net/http, which closes the connection without a response.
ServeHTTP(c, msg, good, stored, newOk) ==
    LET controller0 == session[c]
        create      == NeedsController(controller0)
        controller  == IF create THEN NewSetupServerController(c, newOk)
                       ELSE controller0
        r           == HandleReaderForHandler(controller, msg, good, stored)
    IN  /\ ~exited
        /\ c \in active
        /\ frame[c].pc \in {"idle", "done"}
        /\ create => created[c] < MaxCreated
        /\ created' = [created EXCEPT
                         ![c] = IF r.panic THEN 0
                                ELSE IF create /\ newOk THEN @ + 1 ELSE @]
        /\ session' = [session EXCEPT ![c] = r.controller]
        /\ resp' = [resp EXCEPT
                      ![c] = [msg |-> msg, prev |-> controller0.step,
                              panic |-> r.panic,
                              w |-> IF r.panic THEN NewResponseWriter
                                    ELSE ServeHTTPResponse(r)]]
        /\ active' = IF r.panic THEN active \ {c} ELSE active
        /\ subscribed' = IF r.panic THEN subscribed \ {c} ELSE subscribed
        /\ stalled' = IF r.panic THEN stalled \ {c} ELSE stalled
        /\ registry' = IF r.panic THEN registry \ {c} ELSE registry \cup {c}
        /\ verified' = IF r.panic THEN verified \ {c} ELSE verified
        /\ UNCHANGED <<Events, bc, exited>>
        /\ UNCHANGED reachVars
        /\ UNCHANGED uuidVars
        /\ UNCHANGED <<mutex, frame, bcApp, boot, srv, life>>

\* ---------------------------------------------- event broadcaster: helpers
\* No connection: the nil net.Conn of a local value update.
NoConn == 0

IdleBC ==
    [pc |-> "idle", events |-> FALSE, except |-> NoConn, conns |-> {},
     rest |-> {}, cur |-> NoConn, written |-> [c \in Conns |-> 0]]

\* A callback that notifies whatever the Events flag says.
EventsEnabledAlways(ev) == TRUE

\* onConnChange / onChange: "if c.Events == true".
EventsEnabled(ev) == ev = TRUE

\* A loop that skips no connection.
IsExceptNever(conn, except) == FALSE

\* notifyListener: "if conn == except { continue }".
IsExcept(conn, except) == conn = except

\* notifyListener entered: conns := t.context.ActiveConnections().
notifyListener(except) ==
    [pc |-> "loop", events |-> Events, except |-> except, conns |-> active,
     rest |-> active, cur |-> NoConn, written |-> [c \in Conns |-> 0]]

\* The value-update callback: notifies when events are enabled, and does
\* nothing otherwise.
OnChange(except) ==
    IF EventsEnabled(Events) THEN notifyListener(except)
    ELSE [IdleBC EXCEPT !.pc = "done", !.except = except]

\* Connections of the snapshot the loop has not reached yet and will write to.
Pending == {c \in bc.rest : ~IsExcept(c, bc.except)}

\* ---------------------------------------------- event broadcaster: actions
\* A write on connection x changes the characteristic's value (onConnChange).
ValueUpdateFromConn(x) ==
    /\ ~exited
    /\ x \in active
    /\ bc.pc \in {"idle", "done"}
    /\ bc' = OnChange(x)
    /\ UNCHANGED <<active, Events, subscribed, stalled, exited>>
    /\ UNCHANGED reachVars
    /\ UNCHANGED uuidVars
    /\ UNCHANGED newVars
    /\ UNCHANGED setupVars

\* The application changes the characteristic's value (onChange).
ValueUpdate ==
    /\ ~exited
    /\ bc.pc \in {"idle", "done"}
    /\ bc' = OnChange(NoConn)
    /\ UNCHANGED <<active, Events, subscribed, stalled, exited>>
    /\ UNCHANGED reachVars
    /\ UNCHANGED uuidVars
    /\ UNCHANGED newVars
    /\ UNCHANGED setupVars

\* for _, conn := range conns: the next connection; the excepted one is
\* skipped.
LoopIter(c) ==
    /\ ~exited
    /\ bc.pc = "loop"
    /\ c \in bc.rest
    /\ bc' = [bc EXCEPT !.rest = bc.rest \ {c},
                        !.cur = c,
                        !.pc = IF IsExcept(c, bc.except) THEN "loop" ELSE "New"]
    /\ UNCHANGED <<active, Events, subscribed, stalled, exited>>
    /\ UNCHANGED reachVars
    /\ UNCHANGED uuidVars
    /\ UNCHANGED newVars
    /\ UNCHANGED setupVars

\* The range is exhausted: notifyListener returns.
LoopDone ==
    /\ ~exited
    /\ bc.pc = "loop"
    /\ bc.rest = {}
    /\ bc' = [bc EXCEPT !.pc = "done", !.cur = NoConn]
    /\ UNCHANGED <<active, Events, subscribed, stalled, exited>>
    /\ UNCHANGED reachVars
    /\ UNCHANGED uuidVars
    /\ UNCHANGED newVars
    /\ UNCHANGED setupVars

\* resp, err := netio.New(a, c): the event message is built.
EventNew ==
    /\ ~exited
    /\ bc.pc = "New"
    /\ bc' = [bc EXCEPT !.pc = "Write"]
    /\ UNCHANGED <<active, Events, subscribed, stalled, exited>>
    /\ UNCHANGED reachVars
    /\ UNCHANGED uuidVars
    /\ UNCHANGED newVars
    /\ UNCHANGED setupVars

\* netio.New fails: log.Fatal(err) ends the process.
EventNewFatal ==
    /\ ~exited
    /\ bc.pc = "New"
    /\ exited' = TRUE
    /\ UNCHANGED <<active, Events, subscribed, stalled, bc>>
    /\ UNCHANGED reachVars
    /\ UNCHANGED uuidVars
    /\ UNCHANGED newVars
    /\ UNCHANGED setupVars

\* conn.Write(bytes): blocks while the peer is stalled; its result (success,
\* or an error such as a closed connection) is ignored.
ConnWrite ==
    /\ ~exited
    /\ bc.pc = "Write"
    /\ bc.cur \notin stalled
    /\ bc' = [bc EXCEPT !.written[bc.cur] = @ + 1, !.pc = "loop"]
    /\ UNCHANGED <<active, Events, subscribed, stalled, exited>>
    /\ UNCHANGED reachVars
    /\ UNCHANGED uuidVars
    /\ UNCHANGED newVars
    /\ UNCHANGED setupVars

\* A connection is accepted; its Session starts with no subscription.
Accept(c) ==
    /\ ~exited
    /\ c \notin active
    /\ active' = active \cup {c}
    /\ UNCHANGED <<Events, subscribed, stalled, bc, exited>>
    /\ UNCHANGED reachVars
    /\ UNCHANGED uuidVars
    /\ UNCHANGED newVars
    /\ UNCHANGED setupVars

\* A connection closes, between two requests of its worker; its Session is
\* destroyed.
Close(c) ==
    /\ ~exited
    /\ c \in active
    /\ frame[c].pc \in {"idle", "done"}
    /\ mutex # c
    /\ active' = active \ {c}
    /\ subscribed' = subscribed \ {c}
    /\ stalled' = stalled \ {c}
    /\ session' = [session EXCEPT ![c] = NilController]
    /\ created' = [created EXCEPT ![c] = 0]
    /\ resp' = [resp EXCEPT ![c] = NoRequest]
    /\ frame' = [frame EXCEPT ![c] = IdleFrame]
    /\ registry' = registry \ {c}
    /\ verified' = verified \ {c}
    /\ UNCHANGED <<Events, bc, exited>>
    /\ UNCHANGED reachVars
    /\ UNCHANGED uuidVars
    /\ UNCHANGED <<mutex, bcApp, boot, srv, life>>

\* Connection c asks for events of the characteristic (ev: true).
Subscribe(c) ==
    /\ ~exited
    /\ c \in active \ subscribed
    /\ subscribed' = subscribed \cup {c}
    /\ Events' = TRUE
    /\ UNCHANGED <<active, stalled, bc, exited>>
    /\ UNCHANGED reachVars
    /\ UNCHANGED uuidVars
    /\ UNCHANGED newVars
    /\ UNCHANGED setupVars

\* Connection c asks for no more events of the characteristic (ev: false).
Unsubscribe(c) ==
    /\ ~exited
    /\ c \in subscribed
    /\ subscribed' = subscribed \ {c}
    /\ Events' = FALSE
    /\ UNCHANGED <<active, stalled, bc, exited>>
    /\ UNCHANGED reachVars
    /\ UNCHANGED uuidVars
    /\ UNCHANGED newVars
    /\ UNCHANGED setupVars

\* The peer of connection c stops reading: writes to c block.
Stall(c) ==
    /\ ~exited
    /\ c \in active \ stalled
    /\ stalled' = stalled \cup {c}
    /\ UNCHANGED <<active, Events, subscribed, bc, exited>>
    /\ UNCHANGED reachVars
    /\ UNCHANGED uuidVars
    /\ UNCHANGED newVars
    /\ UNCHANGED setupVars

\* The peer of connection c reads again.
Unstall(c) ==
    /\ ~exited
    /\ c \in stalled
    /\ stalled' = stalled \ {c}
    /\ UNCHANGED <<active, Events, subscribed, bc, exited>>
    /\ UNCHANGED reachVars
    /\ UNCHANGED uuidVars
    /\ UNCHANGED newVars
    /\ UNCHANGED setupVars

NextEvent ==
    \/ \E x \in Conns : ValueUpdateFromConn(x)
    \/ ValueUpdate
    \/ \E c \in Conns : LoopIter(c)
    \/ LoopDone
    \/ EventNew
    \/ EventNewFatal
    \/ ConnWrite
    \/ \E c \in Conns : Accept(c)
    \/ \E c \in Conns : Close(c)
    \/ \E c \in Conns : Subscribe(c)
    \/ \E c \in Conns : Unsubscribe(c)

NextDeliver ==
    \/ NextEvent
    \/ \E c \in Conns : Stall(c)
    \/ \E c \in Conns : Unstall(c)

\* ------------------------------- event broadcaster: a second goroutine
\* The application goroutine changes the value while another worker may be
\* broadcasting: onChange calls notifyListener(a, c, nil) in that goroutine.
AppValueUpdate ==
    /\ ~exited
    /\ bcApp.pc \in {"idle", "done"}
    /\ bcApp' = OnChange(NoConn)
    /\ UNCHANGED eventVars
    /\ UNCHANGED <<mutex, frame, registry, verified, boot, srv, life>>
    /\ UNCHANGED <<reachVars, setupVars, uuidVars>>

\* Its loop: the next connection of its snapshot.
AppLoopIter(c) ==
    /\ ~exited
    /\ bcApp.pc = "loop"
    /\ c \in bcApp.rest
    /\ bcApp' = [bcApp EXCEPT
                   !.rest = bcApp.rest \ {c},
                   !.cur = c,
                   !.pc = IF IsExcept(c, bcApp.except) THEN "loop" ELSE "New"]
    /\ UNCHANGED eventVars
    /\ UNCHANGED <<mutex, frame, registry, verified, boot, srv, life>>
    /\ UNCHANGED <<reachVars, setupVars, uuidVars>>

AppLoopDone ==
    /\ ~exited
    /\ bcApp.pc = "loop"
    /\ bcApp.rest = {}
    /\ bcApp' = [bcApp EXCEPT !.pc = "done", !.cur = NoConn]
    /\ UNCHANGED eventVars
    /\ UNCHANGED <<mutex, frame, registry, verified, boot, srv, life>>
    /\ UNCHANGED <<reachVars, setupVars, uuidVars>>

AppEventNew ==
    /\ ~exited
    /\ bcApp.pc = "New"
    /\ bcApp' = [bcApp EXCEPT !.pc = "Write"]
    /\ UNCHANGED eventVars
    /\ UNCHANGED <<mutex, frame, registry, verified, boot, srv, life>>
    /\ UNCHANGED <<reachVars, setupVars, uuidVars>>

AppEventNewFatal ==
    /\ ~exited
    /\ bcApp.pc = "New"
    /\ exited' = TRUE
    /\ UNCHANGED <<active, Events, subscribed, stalled, bc, bcApp>>
    /\ UNCHANGED <<mutex, frame, registry, verified, boot, srv, life>>
    /\ UNCHANGED <<reachVars, setupVars, uuidVars>>

\* Its conn.Write(bytes): nothing is locked around the call.
AppConnWrite ==
    /\ ~exited
    /\ bcApp.pc = "Write"
    /\ bcApp.cur \notin stalled
    /\ bcApp' = [bcApp EXCEPT !.written[bcApp.cur] = @ + 1, !.pc = "loop"]
    /\ UNCHANGED eventVars
    /\ UNCHANGED <<mutex, frame, registry, verified, boot, srv, life>>
    /\ UNCHANGED <<reachVars, setupVars, uuidVars>>

NextApp ==
    \/ AppValueUpdate
    \/ \E c \in Conns : AppLoopIter(c)
    \/ AppLoopDone
    \/ AppEventNew
    \/ AppEventNewFatal
    \/ AppConnWrite

NextConcurrent == NextEvent \/ NextApp

\* --------------------------------------- event broadcaster: pair-verify
\* Connection c completes pair-verify: its Session now holds the two
\* symmetric keys.
PairVerify(c) ==
    /\ ~exited
    /\ c \in active \ verified
    /\ verified' = verified \cup {c}
    /\ UNCHANGED <<mutex, frame, registry, bcApp, boot, srv, life>>
    /\ UNCHANGED <<reachVars, eventVars, setupVars, uuidVars>>

\* Only a verified connection can send the (encrypted) request that
\* subscribes.
SubscribeVerified(c) == c \in verified /\ Subscribe(c)

NextVerify ==
    \/ \E x \in Conns : ValueUpdateFromConn(x)
    \/ ValueUpdate
    \/ \E c \in Conns : LoopIter(c)
    \/ LoopDone
    \/ EventNew
    \/ EventNewFatal
    \/ ConnWrite
    \/ \E c \in Conns : Accept(c)
    \/ \E c \in Conns : Close(c)
    \/ \E c \in Conns : PairVerify(c)
    \/ \E c \in Conns : SubscribeVerified(c)
    \/ \E c \in Conns : Unsubscribe(c)

\* --------------------------------------------- accessory identifier
\* Number of distinct identifiers util.RandomHexString can produce.
NumUUIDs == 3

\* Number of transport constructions over the same storage.
MaxCalls == 4

UUIDs == 1..NumUUIDs

\* No value under the key "uuid" (and the empty byte slice).
NoUUID == 0

\* storage.Get("uuid"): the stored value; an error (also when the key is
\* absent); or an empty value without an error.
StorageGet(outcome) ==
    IF outcome = "ok" /\ storage # NoUUID THEN [uuid |-> storage, err |-> FALSE]
    ELSE IF outcome = "empty" THEN [uuid |-> NoUUID, err |-> FALSE]
    ELSE [uuid |-> NoUUID, err |-> TRUE]

\* transportUUIDInStorage: "if len(uuid) == 0 || err != nil".
MustGenerate(got) == got.uuid = NoUUID \/ got.err

\* transportUUIDInStorage, called by NewIPTransport: returns the stored
\* identifier, or generates one (fresh) and stores it; log.Fatal when the
\* store fails.
transportUUIDInStorage(outcome, fresh, setOk) ==
    LET got == StorageGet(outcome)
    IN  /\ ~exited
        /\ Len(returned) < MaxCalls
        /\ IF MustGenerate(got)
           THEN IF setOk
                THEN /\ storage' = fresh
                     /\ returned' = Append(returned, fresh)
                     /\ UNCHANGED exited
                ELSE /\ exited' = TRUE
                     /\ UNCHANGED <<storage, returned>>
           ELSE /\ returned' = Append(returned, got.uuid)
                /\ UNCHANGED <<storage, exited>>
        /\ UNCHANGED <<active, Events, subscribed, stalled, bc>>
        /\ UNCHANGED reachVars
        /\ UNCHANGED setupVars
        /\ UNCHANGED newVars

NextUUID ==
    \E outcome \in {"ok", "err", "empty"}, fresh \in UUIDs, setOk \in BOOLEAN :
        transportUUIDInStorage(outcome, fresh, setOk)

\* ------------------------------ pair-setup, statement by statement
\* A context that hands out Sessions it holds and nothing else.
GetNoCreate(reg, key) == [session |-> key \in reg, registry |-> reg]

\* handler.context.Get(key): the Session of the connection, created on first
\* access.
Get(reg, key) == [session |-> TRUE, registry |-> reg \cup {key}]

\* ".(netio.Session)": the type assertion panics on a nil interface value.
IsSession(got) == got.session

\* What a panic of the handler leaves of frame f: net/http recovers it and
\* closes the connection without a response.
Panicked(f, at) == [IdleFrame EXCEPT !.panicAt = at, !.miss = f.miss]

\* Lines 31-35: the request is dispatched to the handler with a new
\* ResponseWriter; the handler sets the content type and computes the
\* connection key.
ServeHTTPBegin(c, msg) ==
    /\ ~exited
    /\ c \in active
    /\ frame[c].pc \in {"idle", "done"}
    /\ mutex # c
    /\ NeedsController(session[c]) => created[c] < MaxCreated
    /\ frame' = [frame EXCEPT ![c] = [IdleFrame EXCEPT !.pc = "Get",
                                                       !.msg = msg]]
    /\ resp' = [resp EXCEPT ![c] = NoRequest]
    /\ UNCHANGED <<session, created>>
    /\ UNCHANGED <<mutex, registry, bcApp, verified, boot, srv, life>>
    /\ UNCHANGED <<reachVars, eventVars, uuidVars>>

\* Line 36: session := handler.context.Get(key).(netio.Session).
ServeHTTPGet(c) ==
    LET got == Get(registry, c)
    IN  /\ ~exited
        /\ frame[c].pc = "Get"
        /\ IF IsSession(got)
           THEN /\ registry' = got.registry
                /\ frame' = [frame EXCEPT ![c].pc = "Lookup",
                                          ![c].miss = c \notin registry]
                /\ UNCHANGED <<active, subscribed, stalled, verified,
                               created, resp>>
           ELSE /\ registry' = got.registry \ {c}
                /\ frame' = [frame EXCEPT
                               ![c] = Panicked([@ EXCEPT !.miss = TRUE], "Get")]
                /\ active' = active \ {c}
                /\ subscribed' = subscribed \ {c}
                /\ stalled' = stalled \ {c}
                /\ verified' = verified \ {c}
                /\ created' = [created EXCEPT ![c] = 0]
                /\ resp' = [resp EXCEPT
                              ![c] = [msg |-> frame[c].msg, prev |-> "nil",
                                      panic |-> TRUE, w |-> NewResponseWriter]]
        /\ UNCHANGED <<Events, bc, exited, session>>
        /\ UNCHANGED <<mutex, bcApp, boot, srv, life>>
        /\ UNCHANGED <<reachVars, uuidVars>>

\* Lines 37-38: controller := session.PairSetupHandler(), and the test for
\* nil.
ServeHTTPLookup(c) ==
    /\ ~exited
    /\ frame[c].pc = "Lookup"
    /\ frame' = [frame EXCEPT
                   ![c].prev = session[c].step,
                   ![c].controller = session[c],
                   ![c].pc = IF NeedsController(session[c]) THEN "Create"
                             ELSE "Handle"]
    /\ UNCHANGED <<mutex, registry, bcApp, verified, boot, srv, life>>
    /\ UNCHANGED <<reachVars, eventVars, setupVars, uuidVars>>

\* Lines 39-46: the controller is created; its err is printed; whatever
\* came back is attached with session.SetPairSetupHandler(controller).
ServeHTTPCreate(c, newOk) ==
    LET controller == NewSetupServerController(c, newOk)
    IN  /\ ~exited
        /\ frame[c].pc = "Create"
        /\ frame' = [frame EXCEPT
                       ![c].controller = controller,
                       ![c].createErr = ~newOk,
                       ![c].set = IF controller = NilController THEN "nil"
                                  ELSE "controller",
                       ![c].pc = "Handle"]
        /\ session' = [session EXCEPT ![c] = controller]
        /\ created' = [created EXCEPT ![c] = IF newOk THEN @ + 1 ELSE @]
        /\ UNCHANGED resp
        /\ UNCHANGED <<mutex, registry, bcApp, verified, boot, srv, life>>
        /\ UNCHANGED <<reachVars, eventVars, uuidVars>>

\* Line 49: res, err := pair.HandleReaderForHandler(request.Body, controller);
\* the local controller is not used after the call.
ServeHTTPHandle(c, good, stored) ==
    LET f == [frame[c] EXCEPT !.passed = TRUE]
        r == HandleReaderForHandler(f.controller, f.msg, good, stored)
    IN  /\ ~exited
        /\ frame[c].pc = "Handle"
        /\ session' = [session EXCEPT ![c] = r.controller]
        /\ IF r.panic
           THEN /\ frame' = [frame EXCEPT ![c] = Panicked(f, "Handle")]
                /\ active' = active \ {c}
                /\ subscribed' = subscribed \ {c}
                /\ stalled' = stalled \ {c}
                /\ verified' = verified \ {c}
                /\ registry' = registry \ {c}
                /\ created' = [created EXCEPT ![c] = 0]
                /\ resp' = [resp EXCEPT
                              ![c] = [msg |-> f.msg, prev |-> f.prev,
                                      panic |-> TRUE, w |-> NewResponseWriter]]
           ELSE /\ frame' = [frame EXCEPT
                               ![c] = [f EXCEPT !.body = r.body, !.err = r.err,
                                                !.controller = NilController,
                                                !.pc = "Respond"]]
                /\ UNCHANGED <<active, subscribed, stalled, verified, registry,
                               created, resp>>
        /\ UNCHANGED <<Events, bc, exited>>
        /\ UNCHANGED <<mutex, bcApp, boot, srv, life>>
        /\ UNCHANGED <<reachVars, uuidVars>>

\* Lines 51-57: the status line alone on err, or the response body; the call
\* returns and its locals are gone.
ServeHTTPRespond(c) ==
    /\ ~exited
    /\ frame[c].pc = "Respond"
    /\ resp' = [resp EXCEPT
                  ![c] = [msg |-> frame[c].msg, prev |-> frame[c].prev,
                          panic |-> FALSE,
                          w |-> ServeHTTPResponse(frame[c])]]
    /\ frame' = [frame EXCEPT ![c] = [IdleFrame EXCEPT !.pc = "done"]]
    /\ UNCHANGED <<session, created>>
    /\ UNCHANGED <<mutex, registry, bcApp, verified, boot, srv, life>>
    /\ UNCHANGED <<reachVars, eventVars, uuidVars>>

\* The worker of connection c enters the /accessories or /characteristics
\* endpoint, which takes the shared mutex (server.go:121-122).
EndpointLock(c) ==
    /\ ~exited
    /\ c \in active
    /\ frame[c].pc \in {"idle", "done"}
    /\ mutex = NoConn
    /\ mutex' = c
    /\ UNCHANGED <<frame, registry, bcApp, verified, boot, srv, life>>
    /\ UNCHANGED <<reachVars, eventVars, setupVars, uuidVars>>

\* That endpoint is done and releases the mutex.
EndpointUnlock(c) ==
    /\ ~exited
    /\ mutex = c
    /\ mutex' = NoConn
    /\ UNCHANGED <<frame, registry, bcApp, verified, boot, srv, life>>
    /\ UNCHANGED <<reachVars, eventVars, setupVars, uuidVars>>

NextHandler ==
    \/ \E c \in Conns : Accept(c)
    \/ \E c \in Conns : Close(c)
    \/ \E c \in Conns, msg \in Msgs : ServeHTTPBegin(c, msg)
    \/ \E c \in Conns : ServeHTTPGet(c)
    \/ \E c \in Conns : ServeHTTPLookup(c)
    \/ \E c \in Conns, newOk \in BOOLEAN : ServeHTTPCreate(c, newOk)
    \/ \E c \in Conns, good, stored \in BOOLEAN : ServeHTTPHandle(c, good, stored)
    \/ \E c \in Conns : ServeHTTPRespond(c)
    \/ \E c \in Conns : EndpointLock(c)
    \/ \E c \in Conns : EndpointUnlock(c)

\* A request that is dispatched while no other worker is inside the handler:
\* the workers share nothing but the registry, of which each touches only the
\* entry of its own connection.
ServeHTTPBeginAlone(c, msg) ==
    /\ \A d \in Conns \ {c} : frame[d].pc \in {"idle", "done"}
    /\ ServeHTTPBegin(c, msg)

NextLookup ==
    \/ \E c \in Conns : Accept(c)
    \/ \E c \in Conns : Close(c)
    \/ \E c \in Conns, msg \in Msgs : ServeHTTPBeginAlone(c, msg)
    \/ \E c \in Conns : ServeHTTPGet(c)
    \/ \E c \in Conns : ServeHTTPLookup(c)
    \/ \E c \in Conns, newOk \in BOOLEAN : ServeHTTPCreate(c, newOk)
    \/ \E c \in Conns, good, stored \in BOOLEAN : ServeHTTPHandle(c, good, stored)
    \/ \E c \in Conns : ServeHTTPRespond(c)

\* ------------------------------------------------------- server port
\* Port numbers run from 1 to MaxPort.
MaxPort == 11

\* Number of Port() calls on one server.
MaxReads == 2

Ports == 1..MaxPort

\* Text is a sequence of one-character strings.
DigitChars == <<"0", "1", "2", "3", "4", "5", "6", "7", "8", "9">>

DigitValue(ch) == CHOOSE d \in 0..9 : DigitChars[d + 1] = ch

IsDigits(text) ==
    /\ text # <<>>
    /\ \A i \in 1..Len(text) : \E d \in 0..9 : DigitChars[d + 1] = text[i]

RECURSIVE DecimalValue(_)
DecimalValue(text) ==
    IF text = <<>> THEN 0
    ELSE DecimalValue(SubSeq(text, 1, Len(text) - 1)) * 10
            + DigitValue(text[Len(text)])

\* The decimal text of a port number, as TCPAddr.String() prints it.
RECURSIVE Itoa(_)
Itoa(n) ==
    IF n < 10 THEN <<DigitChars[n + 1]>>
    ELSE Itoa(n \div 10) \o <<DigitChars[(n % 10) + 1]>>

\* strings.IndexByte and strings.LastIndexByte, counting from 1; 0: absent.
IndexByte(text, ch) ==
    IF \E i \in 1..Len(text) : text[i] = ch
    THEN CHOOSE i \in 1..Len(text) :
             text[i] = ch /\ \A j \in 1..(i - 1) : text[j] # ch
    ELSE 0

LastIndexByte(text, ch) ==
    IF \E i \in 1..Len(text) : text[i] = ch
    THEN CHOOSE i \in 1..Len(text) :
             text[i] = ch /\ \A j \in (i + 1)..Len(text) : text[j] # ch
    ELSE 0

From(text, i) == SubSeq(text, i, Len(text))

\* A split that takes the first colon for the separator.
SplitAtFirstColon(hostport) ==
    LET i == IndexByte(hostport, ":")
    IN  IF i = 0 THEN [host |-> <<>>, port |-> <<>>, err |-> TRUE]
        ELSE [host |-> SubSeq(hostport, 1, i - 1), port |-> From(hostport, i + 1),
              err |-> FALSE]

\* net.SplitHostPort: the port is what follows the last colon; a host that
\* holds colons must be in brackets; on any error both results are empty.
SplitHostPort(hostport) ==
    LET i    == LastIndexByte(hostport, ":")
        fail == [host |-> <<>>, port |-> <<>>, err |-> TRUE]
        end  == IndexByte(hostport, "]")
    IN  IF i = 0 THEN fail
        ELSE IF hostport[1] = "["
        THEN IF end = 0 \/ end + 1 # i THEN fail
             ELSE IF IndexByte(From(hostport, 2), "[") # 0
                     \/ IndexByte(From(hostport, end + 1), "]") # 0
             THEN fail
             ELSE [host |-> SubSeq(hostport, 2, end - 1),
                   port |-> From(hostport, i + 1), err |-> FALSE]
        ELSE IF IndexByte(SubSeq(hostport, 1, i - 1), ":") # 0
                \/ IndexByte(hostport, "[") # 0
                \/ IndexByte(hostport, "]") # 0
        THEN fail
        ELSE [host |-> SubSeq(hostport, 1, i - 1),
              port |-> From(hostport, i + 1), err |-> FALSE]

\* The hosts ln.Addr().String() prints for a TCP listener: an IPv4 address,
\* or an IPv6 address in brackets.
ListenerHosts ==
    {<<"0", ".", "0", ".", "0", ".", "0">>,
     <<"1", "2", "7", ".", "0", ".", "0", ".", "1">>,
     <<"[", ":", ":", "]">>,
     <<"[", ":", ":", "1", "]">>}

\* TCPAddr.String(): host, a colon, the port in decimal.
AddrString(host, n) == host \o <<":">> \o Itoa(n)

ListenerAddrs == {AddrString(h, n) : h \in ListenerHosts, n \in Ports}

\* A server that NewServer has not made yet, on a listener with address addr.
NoServer(addr) ==
    [pc |-> "listen", addr |-> addr, port |-> <<>>, reads |-> 0, got |-> <<>>]

\* NewServer, line 65 and 67-77: the port of the listener's address is kept
\* in s.port.
NewServer ==
    /\ srv.pc = "listen"
    /\ srv' = [srv EXCEPT !.pc = "serving",
                          !.port = SplitHostPort(srv.addr).port]
    /\ UNCHANGED <<mutex, frame, registry, bcApp, verified, boot, life>>
    /\ UNCHANGED <<reachVars, eventVars, setupVars, uuidVars>>

\* Port(): return s.port.
Port ==
    /\ srv.pc = "serving"
    /\ srv.reads < MaxReads
    /\ srv' = [srv EXCEPT !.reads = @ + 1, !.got = srv.port]
    /\ UNCHANGED <<mutex, frame, registry, bcApp, verified, boot, life>>
    /\ UNCHANGED <<reachVars, eventVars, setupVars, uuidVars>>

NextPort == NewServer \/ Port

\* ----------------------------------------------------- configuration
\* What a Config gives for a port: nothing, a port number in decimal, or the
\* same with a leading zero.
PortTexts ==
    {<<>>} \cup {Itoa(n) : n \in Ports} \cup {<<"0">> \o Itoa(n) : n \in Ports}

\* What a Config gives for an IP: nothing or an address.
IPTexts == {"", "10.0.0.1", "10.0.0.2"}

\* getFirstLocalIPAddr(): the first local IPv4 address.
FirstLocalIPAddr == "192.168.0.2"

Configs ==
    [Port : PortTexts, AdvertisedPort : PortTexts,
     IP : IPTexts, AdvertisedIP : IPTexts]

\* to.Int64 of a text: its decimal value, 0 when it is no number.
Int64(text) == IF IsDigits(text) THEN DecimalValue(text) ELSE 0

\* A constructor that advertises the listening port whatever the Config asks.
AdvertisedPortIgnored(advertisedPort, port) == port

\* NewIPTransport, lines 122-126: ":" + advertisedPort, or else the Port
\* computed before.
AdvertisedPortOrPort(advertisedPort, port) ==
    IF Len(advertisedPort) > 0 THEN <<":">> \o advertisedPort ELSE port

\* NewIPTransport, lines 96-132: the Config of the transport.
DefaultConfig(config) ==
    LET port == IF Len(config.Port) > 0 THEN <<":">> \o config.Port ELSE <<>>
        ip   == IF config.IP # "" THEN config.IP ELSE FirstLocalIPAddr
    IN  [Port |-> port,
         AdvertisedPort |-> AdvertisedPortOrPort(config.AdvertisedPort, port),
         IP |-> ip,
         AdvertisedIP |-> IF config.AdvertisedIP # "" THEN config.AdvertisedIP
                          ELSE ip]

\* net.Listen("tcp", addr): the port the listener is bound to; the system
\* picks one (free) when addr names none.
ListenPort(addr, free) ==
    IF addr = <<>> \/ Int64(Tail(addr)) = 0 THEN free ELSE Int64(Tail(addr))

\* The state before NewIPTransport is called with config.
NoTransport(config) ==
    [pc |-> "config", config |-> config, t |-> config, listen |-> 0,
     port |-> <<>>, mdnsIP |-> "", mdnsPort |-> 0]

\* NewIPTransport(config, ...): t.config is the default Config overridden by
\* the fields given.
NewIPTransport ==
    /\ boot.pc = "config"
    /\ boot' = [boot EXCEPT !.pc = "new", !.t = DefaultConfig(boot.config)]
    /\ UNCHANGED <<mutex, frame, registry, bcApp, verified, srv, life>>
    /\ UNCHANGED <<reachVars, eventVars, setupVars, uuidVars>>

\* Start, lines 179-190: server.NewServer listens on t.config.Port and keeps
\* the port of the listener's address ([::]:port).
StartNewServer(free) ==
    LET n == ListenPort(boot.t.Port, free)
    IN  /\ boot.pc = "new"
        /\ boot' = [boot EXCEPT
                      !.pc = "server",
                      !.listen = n,
                      !.port = SplitHostPort(
                                   AddrString(<<"[", ":", ":", "]">>, n)).port]
        /\ UNCHANGED <<mutex, frame, registry, bcApp, verified, srv, life>>
        /\ UNCHANGED <<reachVars, eventVars, setupVars, uuidVars>>

\* Start, lines 192-208: what NewMDNSService is given.
StartPublish ==
    /\ boot.pc = "server"
    /\ boot' = [boot EXCEPT
                  !.pc = "published",
                  !.mdnsIP = boot.t.AdvertisedIP,
                  !.mdnsPort = IF boot.t.AdvertisedPort # boot.t.Port
                               THEN Int64(Tail(boot.t.AdvertisedPort))
                               ELSE Int64(boot.port)]
    /\ UNCHANGED <<mutex, frame, registry, bcApp, verified, srv, life>>
    /\ UNCHANGED <<reachVars, eventVars, setupVars, uuidVars>>

NextBoot ==
    \/ NewIPTransport
    \/ \E free \in Ports : StartNewServer(free)
    \/ StartPublish

\* ------------------------------------------------------ start and stop
\* Start and Stop run in different goroutines and share t.server, t.mdns and
\* s.hapListener without synchronisation: a read sees the value written, or
\* still nil.
Seen(field) == {field, "nil"}

\* A transport on which neither Start nor Stop has been called.
NotStarted ==
    [start |-> "idle", stop |-> "idle", server |-> "nil", mdns |-> "nil",
     hapListener |-> "nil", rest |-> {}, nilUse |-> FALSE]

\* Start, lines 179-190: s := server.NewServer(config); t.server = s.
StartServer ==
    /\ ~exited
    /\ life.start = "idle"
    /\ life' = [life EXCEPT !.start = "mdns", !.server = "set"]
    /\ UNCHANGED <<mutex, frame, registry, bcApp, verified, boot, srv>>
    /\ UNCHANGED <<reachVars, eventVars, setupVars, uuidVars>>

\* Start, lines 207-215: t.mdns = mdns; mdns.Publish().
StartMDNS ==
    /\ ~exited
    /\ life.start = "mdns"
    /\ life' = [life EXCEPT !.start = "listen", !.mdns = "set"]
    /\ UNCHANGED <<mutex, frame, registry, bcApp, verified, boot, srv>>
    /\ UNCHANGED <<reachVars, eventVars, setupVars, uuidVars>>

\* Start, line 218, and listenAndServe, lines 102-105: the HAP listener is
\* made and kept in s.hapListener.
ListenAndServe ==
    /\ ~exited
    /\ life.start = "listen"
    /\ life' = [life EXCEPT !.start = "serving", !.hapListener = "open"]
    /\ UNCHANGED <<mutex, frame, registry, bcApp, verified, boot, srv>>
    /\ UNCHANGED <<reachVars, eventVars, setupVars, uuidVars>>

\* listenAndServe, line 106: server.Serve(listener) accepts a connection.
ServeAccept(c) ==
    /\ life.start = "serving"
    /\ life.hapListener = "open"
    /\ Accept(c)

\* server.Serve returns once the listener is closed, and Start with it.
ServeReturn ==
    /\ ~exited
    /\ life.start = "serving"
    /\ life.hapListener = "closed"
    /\ life' = [life EXCEPT !.start = "done"]
    /\ UNCHANGED <<mutex, frame, registry, bcApp, verified, boot, srv>>
    /\ UNCHANGED <<reachVars, eventVars, setupVars, uuidVars>>

\* ipTransport.Stop is called.
StopBegin ==
    /\ ~exited
    /\ life.stop = "idle"
    /\ life' = [life EXCEPT !.stop = "mdns"]
    /\ UNCHANGED <<mutex, frame, registry, bcApp, verified, boot, srv>>
    /\ UNCHANGED <<reachVars, eventVars, setupVars, uuidVars>>

\* ipTransport.Stop, lines 223-225: if t.mdns != nil { t.mdns.Stop() }.
StopMDNS(seen) ==
    /\ ~exited
    /\ life.stop = "mdns"
    /\ seen \in Seen(life.mdns)
    /\ life' = [life EXCEPT !.stop = "server",
                            !.mdns = IF seen = "nil" THEN @ ELSE "stopped"]
    /\ UNCHANGED <<mutex, frame, registry, bcApp, verified, boot, srv>>
    /\ UNCHANGED <<reachVars, eventVars, setupVars, uuidVars>>

\* ipTransport.Stop, lines 227-229: if t.server != nil { t.server.Stop() }.
StopServer(seen) ==
    /\ ~exited
    /\ life.stop = "server"
    /\ seen \in Seen(life.server)
    /\ life' = [life EXCEPT !.stop = IF seen = "nil" THEN "done"
                                     ELSE "snapshot"]
    /\ UNCHANGED <<mutex, frame, registry, bcApp, verified, boot, srv>>
    /\ UNCHANGED <<reachVars, eventVars, setupVars, uuidVars>>

\* hkServer.Stop, line 89: the range expression s.context.ActiveConnections().
StopSnapshot ==
    /\ ~exited
    /\ life.stop = "snapshot"
    /\ life' = [life EXCEPT !.stop = "close", !.rest = active]
    /\ UNCHANGED <<mutex, frame, registry, bcApp, verified, boot, srv>>
    /\ UNCHANGED <<reachVars, eventVars, setupVars, uuidVars>>

\* hkServer.Stop, line 90: c.Close() for the next connection of the snapshot.
StopCloseConn(c) ==
    /\ ~exited
    /\ life.stop = "close"
    /\ c \in life.rest
    /\ life' = [life EXCEPT !.rest = @ \ {c}]
    /\ active' = active \ {c}
    /\ subscribed' = subscribed \ {c}
    /\ stalled' = stalled \ {c}
    /\ registry' = registry \ {c}
    /\ verified' = verified \ {c}
    /\ UNCHANGED <<Events, bc, exited>>
    /\ UNCHANGED <<mutex, frame, bcApp, boot, srv>>
    /\ UNCHANGED <<reachVars, setupVars, uuidVars>>

\* hkServer.Stop, line 93: s.hapListener.Close(); on a nil hapListener the
\* call is a nil dereference, which ends the process.
StopCloseListener(seen) ==
    /\ ~exited
    /\ life.stop = "close"
    /\ life.rest = {}
    /\ seen \in Seen(life.hapListener)
    /\ IF seen = "nil"
       THEN /\ life' = [life EXCEPT !.stop = "panic", !.nilUse = TRUE]
            /\ exited' = TRUE
       ELSE /\ life' = [life EXCEPT !.stop = "done", !.hapListener = "closed"]
            /\ UNCHANGED exited
    /\ UNCHANGED <<active, Events, subscribed, stalled, bc>>
    /\ UNCHANGED <<mutex, frame, registry, bcApp, verified, boot, srv>>
    /\ UNCHANGED <<reachVars, setupVars, uuidVars>>

NextLife ==
    \/ StartServer
    \/ StartMDNS
    \/ ListenAndServe
    \/ \E c \in Conns : ServeAccept(c)
    \/ ServeReturn
    \/ \E c \in Conns : Close(c)
    \/ StopBegin
    \/ \E seen \in {"nil", "set"} : StopMDNS(seen)
    \/ \E seen \in {"nil", "set"} : StopServer(seen)
    \/ StopSnapshot
    \/ \E c \in Conns : StopCloseConn(c)
    \/ \E seen \in {"nil", "open", "closed"} : StopCloseListener(seen)

\* ------------------------------------------------------- specifications
NextSetup ==
    \/ \E c \in Conns : Accept(c)
    \/ \E c \in Conns : Close(c)
    \/ \E c \in Conns, msg \in Msgs, good, stored, newOk \in BOOLEAN :
          ServeHTTP(c, msg, good, stored, newOk)

\* The reachability variables before Start: the database holds the
\* accessory's entity and the controllers in one of dbs.
ReachVarsInit(dbs, faults) ==
    /\ database \in dbs
    /\ mdns = [ptr |-> FALSE, reachable |-> FALSE]
    /\ hpc = [c \in Conns |-> "idle"]
    /\ hval = [c \in Conns |-> FALSE]
    /\ lastIsPaired = NoCall
    /\ readFails \in faults

EventVarsInit ==
    /\ active = {}
    /\ Events = FALSE
    /\ subscribed = {}
    /\ stalled = {}
    /\ bc = IdleBC
    /\ exited = FALSE

SetupVarsInit ==
    /\ session = [c \in Conns |-> NilController]
    /\ created = [c \in Conns |-> 0]
    /\ resp = [c \in Conns |-> NoRequest]

UUIDVarsInit(stores) ==
    /\ storage \in stores
    /\ returned = <<>>

HandlerVarsInit ==
    /\ mutex = NoConn
    /\ frame = [c \in Conns |-> IdleFrame]
    /\ registry = {}

MoreEventVarsInit ==
    /\ bcApp = IdleBC
    /\ verified = {}

ZeroConfig == [Port |-> <<>>, AdvertisedPort |-> <<>>, IP |-> "",
               AdvertisedIP |-> ""]

RestVarsInit ==
    /\ boot = NoTransport(ZeroConfig)
    /\ srv = NoServer(<<>>)
    /\ life = NotStarted

AnyDatabase == {{Accessory} \cup S : S \in SUBSET Controllers}

\* Reachability: any set of controllers paired in an earlier run.
InitReach ==
    /\ ReachVarsInit(AnyDatabase, BOOLEAN)
    /\ EventVarsInit
    /\ SetupVarsInit
    /\ UUIDVarsInit({NoUUID})
    /\ HandlerVarsInit
    /\ MoreEventVarsInit
    /\ RestVarsInit

SpecReach == InitReach /\ [][NextReach]_vars

\* The same system on a storage backend whose reads never fail.
InitReachHealthy ==
    /\ ReachVarsInit(AnyDatabase, {FALSE})
    /\ EventVarsInit
    /\ SetupVarsInit
    /\ UUIDVarsInit({NoUUID})
    /\ HandlerVarsInit
    /\ MoreEventVarsInit
    /\ RestVarsInit

SpecReachHealthy == InitReachHealthy /\ [][NextReach]_vars

\* A newly constructed transport that no controller has paired with.
InitEvent ==
    /\ ReachVarsInit({{Accessory}}, {FALSE})
    /\ EventVarsInit
    /\ SetupVarsInit
    /\ UUIDVarsInit({NoUUID})
    /\ HandlerVarsInit
    /\ MoreEventVarsInit
    /\ RestVarsInit

\* The event broadcaster, with peers that always read.
SpecEvent == InitEvent /\ [][NextEvent]_vars

\* The event broadcaster, with peers that may stop reading.
SpecDeliver == InitEvent /\ [][NextDeliver]_vars

\* The pair-setup endpoint.
SpecSetup == InitEvent /\ [][NextSetup]_vars

InitUUID ==
    /\ ReachVarsInit({{Accessory}}, {FALSE})
    /\ EventVarsInit
    /\ SetupVarsInit
    /\ UUIDVarsInit({NoUUID} \cup UUIDs)
    /\ HandlerVarsInit
    /\ MoreEventVarsInit
    /\ RestVarsInit

\* Transports constructed one after another over the same storage.
SpecUUID == InitUUID /\ [][NextUUID]_vars

\* The event broadcaster with two goroutines changing the value.
SpecConcurrent == InitEvent /\ [][NextConcurrent]_vars

\* The event broadcaster with connections that complete pair-verify.
SpecVerify == InitEvent /\ [][NextVerify]_vars

\* The pair-setup endpoint, one statement at a time, one request at a time.
SpecLookup == InitEvent /\ [][NextLookup]_vars

\* A server made on a listener with any of the addresses.
InitPort ==
    /\ ReachVarsInit({{Accessory}}, {FALSE})
    /\ EventVarsInit
    /\ SetupVarsInit
    /\ UUIDVarsInit({NoUUID})
    /\ HandlerVarsInit
    /\ MoreEventVarsInit
    /\ boot = NoTransport(ZeroConfig)
    /\ srv \in {NoServer(addr) : addr \in ListenerAddrs}
    /\ life = NotStarted

SpecPort == InitPort /\ [][NextPort]_vars

\* A transport constructed from any Config and started.
InitBoot ==
    /\ ReachVarsInit({{Accessory}}, {FALSE})
    /\ EventVarsInit
    /\ SetupVarsInit
    /\ UUIDVarsInit({NoUUID})
    /\ HandlerVarsInit
    /\ MoreEventVarsInit
    /\ boot \in {NoTransport(config) : config \in Configs}
    /\ srv = NoServer(<<>>)
    /\ life = NotStarted

SpecBoot == InitBoot /\ [][NextBoot]_vars

\* Start and Stop called once each, from different goroutines.
SpecLife == InitEvent /\ [][NextLife]_vars

\* The pair-setup endpoint, one statement of a worker at a time.
SpecHandler == InitEvent /\ [][NextHandler]_vars

Init ==
    /\ ReachVarsInit(AnyDatabase, BOOLEAN)
    /\ EventVarsInit
    /\ SetupVarsInit
    /\ UUIDVarsInit({NoUUID} \cup UUIDs)
    /\ HandlerVarsInit
    /\ MoreEventVarsInit
    /\ RestVarsInit

Next ==
    \/ NextReach
    \/ NextDeliver
    \/ NextSetup
    \/ NextUUID
    \/ NextHandler
    \/ NextApp
    \/ NextVerify
    \/ NextPort
    \/ NextBoot
    \/ NextLife

Spec == Init /\ [][Next]_vars

\* ------------------------------------------------------------ claims
\* C1: once the transport is started and no DevicePaired/DeviceUnpaired
\* handler is in progress, the mDNS reachable flag is true exactly when the
\* paired-controller set is empty.
C1_ReachableIffUnpaired ==
    (mdns.ptr /\ \A c \in Conns : hpc[c] = "idle")
        => (mdns.reachable = (PairedControllers = {}))

\* C2: every isPaired() call returns true exactly when the set of
\* PairedController records is non-empty, read errors included.
C2_IsPairedIffNonEmpty ==
    lastIsPaired.called => (lastIsPaired.ret = lastIsPaired.nonEmpty)

C4_ExceptOriginator ==
    /\ \A c \in Conns : bc.written[c] <= 1
    /\ bc.except # NoConn => bc.written[bc.except] = 0
    /\ (bc.pc = "done" /\ bc.events) =>
          \A c \in Conns :
              bc.written[c] = IF c \in bc.conns \ {bc.except} THEN 1 ELSE 0

\* C4 witness: a finished broadcast that came from a connection of the
\* snapshot and wrote to another one.
C4_Witness ==
    /\ bc.pc = "done"
    /\ bc.events
    /\ bc.except \in bc.conns
    /\ \E c \in bc.conns : c # bc.except /\ bc.written[c] = 1

\* C5: a write that fails or blocks on one connection does not keep the
\* broadcast from the other connections: while the broadcast waits in a
\* write, no other connection of the snapshot is still unserved behind it
\* unless that write can complete.
C5_BestEffort ==
    (bc.pc = "Write" /\ Pending # {}) => ENABLED ConnWrite

\* The step a Session's controller waits for (a Session without a controller
\* gets a new one, which waits for M1).
ExpectedStep(prev) == IF prev = "nil" THEN "M1" ELSE prev

\* C6: at most one setup controller is created for a connection's Session,
\* and a pair-setup start (M1) that arrives while the Session's controller is
\* in the middle of a handshake is rejected: it is answered with an error
\* and starts no exchange.
C6_OneSetupSession ==
    \A c \in Conns :
        /\ created[c] <= 1
        /\ session[c] # NilController => session[c].gen = 1
        /\ (resp[c].msg = "M1" /\ resp[c].prev \in {"M3", "M5"} /\ c \in active) =>
              /\ resp[c].w.body = "UnknownError"
              /\ session[c].step = "M1"

\* C6 witness: a second M1 arrived on a connection whose controller waited
\* for M3, and was rejected by that one controller.
C6_Witness ==
    \E c \in Conns :
        /\ c \in active
        /\ created[c] = 1
        /\ resp[c].msg = "M1"
        /\ resp[c].prev = "M3"
        /\ resp[c].w.body = "UnknownError"

\* A pair-setup request that ended in success or in an error.
Ended(c) ==
    /\ c \in active
    /\ resp[c].msg # "none"
    /\ resp[c].w.wrote
    /\ resp[c].w.body \notin {"M2", "M4"}

\* C7: after a pair-setup request that ends in success or in an error the
\* connection's Session holds no setup controller.
C7_DestroyedAtEnd ==
    \A c \in Conns : Ended(c) => session[c] = NilController

\* A request that could not be decoded, or that came out of sequence.
Unacceptable(c) ==
    /\ c \in active
    /\ resp[c].msg # "none"
    /\ ~resp[c].panic
    /\ resp[c].msg # ExpectedStep(resp[c].prev)

\* C8: a request that cannot be decoded or comes out of sequence is answered
\* with a TLV8 body carrying UnknownError, never with a body-less error
\* status, and leaves no handshake state behind.
C8_UnknownErrorTLV ==
    \A c \in Conns :
        Unacceptable(c) =>
            /\ resp[c].w.body = "UnknownError"
            /\ resp[c].w.status = StatusOK
            /\ session[c].step \in {"nil", "M1"}

\* C9: every response of the pair-setup endpoint, on the success path and
\* on the error path, goes out with the pairing TLV8 content type (the
\* header is set before the status line is written).
C9_ContentType ==
    \A c \in Conns :
        resp[c].w.wrote => resp[c].w.ctype = HTTPContentTypePairingTLV8

\* C9 witness: both paths have answered: one connection got a body-less
\* error status, another a TLV8 body.
C9_Witness ==
    \E c, d \in Conns :
        /\ resp[c].w.wrote /\ resp[c].w.status = StatusInternalServerError
        /\ resp[d].w.wrote /\ resp[d].w.body = "M2"

\* C10: every call of transportUUIDInStorage after the first returns the
\* identifier the first call returned.
C10_NeverChanges ==
    \A i \in 1..Len(returned) : returned[i] = returned[1]

\* C11: a worker that is looking up, creating or attaching the pair-setup
\* controller of a Session, or handing a request to it, holds the shared
\* mutex.
C11_MutexHeld ==
    \A c \in Conns :
        frame[c].pc \in {"Lookup", "Create", "Handle"} => mutex = c

\* C12: at most one write is in flight on a connection: two workers are
\* never both in conn.Write on the same connection.
C12_OneWriteInFlight ==
    ~(bc.pc = "Write" /\ bcApp.pc = "Write" /\ bc.cur = bcApp.cur)

\* C13: an event is written only to a connection whose Session holds the
\* pair-verify keys; an active connection that has not verified gets none.
C13_OnlyVerified ==
    [][\A c \in Conns :
          (bc'.written[c] > bc.written[c] /\ c \in active)
              => c \in verified]_vars

\* C14: no failure while serving a connection or building an event message
\* ends the process.
C14_ProcessSurvives == exited = FALSE

TextAfterFinalColon(text) ==
    SubSeq(text, LastIndexByte(text, ":") + 1, Len(text))

\* C16: the port the server keeps, and every Port() call returns, is the text
\* after the final colon of the listener's address.
C16_PortOfListener ==
    /\ srv.pc = "serving" =>
          /\ srv.port = TextAfterFinalColon(srv.addr)
          /\ IsDigits(srv.port)
    /\ srv.reads > 0 => srv.got = TextAfterFinalColon(srv.addr)

\* C16 witness: Port() was called more than once on a server that listens
\* on a bracketed IPv6 address.
C16_Witness ==
    /\ srv.reads = MaxReads
    /\ srv.addr[1] = "["
    /\ Len(srv.got) = 2

C18_NoneOpenAfterStop ==
    (life.stop = "done" /\ life.hapListener = "closed") => active = {}

\* C19: Stop never calls into a listener that is not set yet.
C19_StopNeverUsesUnset == life.nilUse = FALSE

\* C20: when creating the controller fails, nothing is attached to the
\* Session, the request body is not handed to the absent controller, and the
\* request is answered with an error status.
C20_FailedCreationRejected ==
    \A c \in Conns :
        frame[c].createErr =>
            /\ frame[c].set = "none"
            /\ ~frame[c].passed
            /\ frame[c].pc = "Respond" => frame[c].err

====
